---- MODULE Spec2Model ----
(***************************************************************************)
(* Model of finplot.py: the time-indexed data source (PandasDataSource),   *)
(* its single-entry hilo cache, the zooming view box (FinViewBox) and the  *)
(* deferred rendering of heavy items.                                      *)
(*                                                                         *)
(* Numbers.  Python floats on the X axis are modelled exactly: a number   *)
(* is an integer part and a binary fraction of 55 bits, and a sum or a     *)
(* product is rounded to the 53 significant bits of a double where the     *)
(* program rounds it.  Y values and table cells are integers.              *)
(***************************************************************************)
EXTENDS Integers, Sequences, FiniteSets, TLC

VARIABLES
    df,                  \* PandasDataSource.df: sequence of rows <<time, c1, c2, ...>>
    skip_scale_colcnt,   \* PandasDataSource.skip_scale_colcnt
    cache_hilo_query,    \* PandasDataSource.cache_hilo_query (<<>> models '')
    cache_hilo_answer,   \* PandasDataSource.cache_hilo_answer (<<>> models None)
    datasrc,             \* FinViewBox.datasrc is not None (it is then the store above)
    rect,                \* the view box's target rectangle [x0, y0, x1, y1]
    auto_scale_y,        \* FinViewBox.auto_scale_y
    limits,              \* xMin/xMax and yMin/yMax handed to the toolkit (<<>> = none)
    init_steps,          \* FinViewBox.init_steps
    heavies,             \* FinViewBox.heavies: visibility of each registered item
    heavies_blind_cnt,   \* FinViewBox.heavies_blind_cnt
    pending,             \* the further series the script will plot on this axis
    last,                \* observation of the last operation (history variable)
    hist,                \* the last hilo calls, oldest first (history variable)
    gate                 \* ticks and reveals since the counter was last set, what set it,
                         \* whether that cut a countdown short one tick before its end,
                         \* and whether an item was visible just before (history variable)

vars == <<df, skip_scale_colcnt, cache_hilo_query, cache_hilo_answer, datasrc, rect,
          auto_scale_y, limits, init_steps, heavies, heavies_blind_cnt, pending,
          last, hist, gate>>

storeVars == <<df, skip_scale_colcnt, cache_hilo_query, cache_hilo_answer>>
viewVars  == <<datasrc, rect, auto_scale_y, limits, init_steps, heavies, heavies_blind_cnt>>

-----------------------------------------------------------------------------
(* Bounds of the model *)

MaxHeavies == 1      \* heavy items registered at most
MaxBelow   == 2      \* the tick counter is followed this far below zero
MaxTime    == 3      \* largest time value of the small generated tables
MaxVal     == 2      \* largest cell value of the small generated tables
MaxLen     == 2      \* most rows of the small generated tables

-----------------------------------------------------------------------------
(* Numbers *)

(* A number is <<i, a, b, c, d, e>> for                                      *)
(*     i + a/2^11 + b/2^22 + c/2^33 + d/2^44 + e/2^55,                       *)
(* the fraction written in base 2^11 = 2048, each digit in 0..2047 (1024 is  *)
(* half a digit's range, 512 a quarter).  Every double                       *)
(* the program computes on the X axis is such a number: the bounds of a      *)
(* rectangle are multiples of a half, a scale factor is a multiple of 2^-53, *)
(* their product one of 2^-54, and rounding only makes the grid coarser.     *)
FxInt(n) == <<n, 0, 0, 0, 0, 0>>

\* a + sg * b for sg = 1 or -1, exactly: digit by digit, the carries upwards
FxSum(a, b, sg) ==
    LET t6 == a[6] + sg * b[6]
        t5 == a[5] + sg * b[5] + (t6 \div 2048)
        t4 == a[4] + sg * b[4] + (t5 \div 2048)
        t3 == a[3] + sg * b[3] + (t4 \div 2048)
        t2 == a[2] + sg * b[2] + (t3 \div 2048)
    IN  <<a[1] + sg * b[1] + (t2 \div 2048),
          t2 % 2048, t3 % 2048, t4 % 2048, t5 % 2048, t6 % 2048>>

FxNeg(a) == FxSum(FxInt(0), a, -1)

\* x plus h halves of a time unit
FxAddHalves(x, h) == FxSum(x, <<h \div 2, (h % 2) * 1024, 0, 0, 0, 0>>, 1)

\* a - b in halves of a time unit, for multiples of a half
FxDiff(a, b) == 2 * (a[1] - b[1]) + ((a[2] - b[2]) \div 1024)

\* x is a multiple of a half
OnHalves(x) == x[2] % 1024 = 0 /\ \A k \in 3..6 : x[k] = 0

RECURSIVE FxLessFrom(_, _, _)
FxLessFrom(a, b, k) ==
    IF k > 6 THEN FALSE
    ELSE a[k] < b[k] \/ (a[k] = b[k] /\ FxLessFrom(a, b, k + 1))

FxLess(a, b) == FxLessFrom(a, b, 1)
FxLeq(a, b)  == a = b \/ FxLess(a, b)

\* a / 2, for a >= 0 with an even last digit
FxHalve(a) ==
    LET t2 == (a[1] % 2) * 2048 + a[2]
        t3 == (t2 % 2) * 2048 + a[3]
        t4 == (t3 % 2) * 2048 + a[4]
        t5 == (t4 % 2) * 2048 + a[5]
        t6 == (t5 % 2) * 2048 + a[6]
    IN  <<a[1] \div 2, t2 \div 2, t3 \div 2, t4 \div 2, t5 \div 2, t6 \div 2>>

\* the number of bits of n, 0 <= n < 2^31, found by halving the search
BitLen(n) ==
    LET s16 == IF n >= 2 ^ 16 THEN 16 ELSE 0
        s8  == IF n \div (2 ^ s16) >= 2 ^ 8 THEN s16 + 8 ELSE s16
        s4  == IF n \div (2 ^ s8) >= 2 ^ 4 THEN s8 + 4 ELSE s8
        s2  == IF n \div (2 ^ s4) >= 2 ^ 2 THEN s4 + 2 ELSE s4
        s1  == IF n \div (2 ^ s2) >= 2 THEN s2 + 1 ELSE s2
    IN  IF n = 0 THEN 0 ELSE s1 + 1

(* Rounding to a double.  A double has 53 significant bits: m >= 0 keeps     *)
(* 53 - BitLen(m[1]) bits of its fraction when it is 1 or more, 53 from a    *)
(* half up, 54 from a quarter up.  Below a quarter the numbers of the model  *)
(* are doubles as they are.                                                  *)
FracBits(m) ==
    IF m[1] > 0 THEN 53 - BitLen(m[1])
    ELSE IF m[2] >= 1024 THEN 53
    ELSE IF m[2] >= 512 THEN 54
    ELSE 55

\* m >= 0 rounded to n bits of fraction (22 <= n <= 54), ties to even: digit j
\* of the fraction keeps its upper bits, lo is what it loses
RoundAt(m, n) ==
    LET j    == (n \div 11) + 2
        w    == 11 - (n % 11)
        lo   == m[j] % (2 ^ w)
        rest == \E k \in (j + 1)..6 : m[k] # 0
        odd  == IF w < 11 THEN (m[j] \div (2 ^ w)) % 2 = 1 ELSE m[j - 1] % 2 = 1
        up   == lo > 2 ^ (w - 1) \/ (lo = 2 ^ (w - 1) /\ (rest \/ odd))
        T    == [k \in 1..6 |-> IF k < j THEN m[k] ELSE IF k = j THEN m[j] - lo ELSE 0]
        U    == [k \in 1..6 |-> IF k = j THEN 2 ^ w ELSE 0]
    IN  FxSum(T, IF up THEN U ELSE FxInt(0), 1)

RoundMag(m) == IF FracBits(m) >= 55 THEN m ELSE RoundAt(m, FracBits(m))

\* the double nearest to x, ties to even
RN53(x) == IF x[1] < 0 THEN FxNeg(RoundMag(FxNeg(x))) ELSE RoundMag(x)

(* '%.9g' % x, as the number its text denotes: x rounded to 9 significant    *)
(* decimal digits, ties to even, written <<m, e>> for m * 10^e with m not a  *)
(* multiple of ten (<<0, 0>> for zero).  Two texts are equal exactly when    *)
(* these pairs are.                                                          *)
\* the number of decimal digits of n >= 0 (none for 0)
DecLen(n) ==
    IF n >= 10000
    THEN IF n >= 10000000
         THEN IF n >= 1000000000 THEN 10 ELSE IF n >= 100000000 THEN 9 ELSE 8
         ELSE IF n >= 1000000 THEN 7 ELSE IF n >= 100000 THEN 6 ELSE 5
    ELSE IF n >= 100
         THEN IF n >= 1000 THEN 4 ELSE 3
         ELSE IF n >= 10 THEN 2 ELSE IF n >= 1 THEN 1 ELSE 0

\* the number of zeros m > 0 ends in
Zeros(m) ==
    IF m % 10 # 0 THEN 0
    ELSE IF m % 100 # 0 THEN 1
    ELSE IF m % 1000 # 0 THEN 2
    ELSE IF m % 10000 # 0 THEN 3
    ELSE IF m % 100000 # 0 THEN 4
    ELSE IF m % 1000000 # 0 THEN 5
    ELSE IF m % 10000000 # 0 THEN 6
    ELSE IF m % 100000000 # 0 THEN 7
    ELSE IF m % 1000000000 # 0 THEN 8
    ELSE 9

\* m * 10^e with the zeros m ends in moved into the exponent
Strip(m, e) ==
    IF m = 0 THEN <<0, 0>>
    ELSE LET z == Zeros(m) IN <<m \div (10 ^ z), e + z>>

\* the fraction f = <<a, b, c, d, e>> against a half: is it more, is it equal
FracOverHalf(f) == f[1] > 1024 \/ (f[1] = 1024 /\ \E k \in 2..5 : f[k] # 0)
FracIsHalf(f)   == f[1] = 1024 /\ \A k \in 2..5 : f[k] = 0
FracIsZero(f)   == \A k \in 1..5 : f[k] = 0

\* c * f for c up to 10^4: <<the whole part, the fraction left>>
MulFrac(f, c) ==
    LET t5 == c * f[5]
        t4 == c * f[4] + (t5 \div 2048)
        t3 == c * f[3] + (t4 \div 2048)
        t2 == c * f[2] + (t3 \div 2048)
        t1 == c * f[1] + (t2 \div 2048)
    IN  <<t1 \div 2048, <<t1 % 2048, t2 % 2048, t3 % 2048, t4 % 2048, t5 % 2048>>>>

\* (n + f) * 10^e with 1 <= n < 10^8: the digits of f that fill n up to 9
\* digits are taken in two steps of at most four, then the rest rounds
FmtFrom(n, f, e) ==
    LET k  == 9 - DecLen(n)
        k1 == IF k > 4 THEN 4 ELSE k
        a  == MulFrac(f, 10 ^ k1)
        b  == MulFrac(a[2], 10 ^ (k - k1))
        acc == (n * (10 ^ k1) + a[1]) * (10 ^ (k - k1)) + b[1]
        up == FracOverHalf(b[2]) \/ (FracIsHalf(b[2]) /\ acc % 2 = 1)
    IN  Strip(IF up THEN acc + 1 ELSE acc, e - k)

\* f * 10^e with f below one: the zeros behind the point are passed four at a
\* time until a digit shows
RECURSIVE FmtSmall(_, _)
FmtSmall(f, e) ==
    IF FracIsZero(f) THEN <<0, 0>>
    ELSE LET a == MulFrac(f, 10000) IN
         IF a[1] = 0 THEN FmtSmall(a[2], e - 4) ELSE FmtFrom(a[1], a[2], e - 4)

\* m >= 0 with 9 decimal digits or more before the point: rounded to a whole
\* number, from 10^9 on to a multiple of ten
FmtWhole(m) ==
    LET f == <<m[2], m[3], m[4], m[5], m[6]>>
        ten == m[1] >= 1000000000
        k == IF ten THEN m[1] \div 10 ELSE m[1]
        r == IF ten THEN m[1] % 10 ELSE 0
        over == IF ten THEN r > 5 \/ (r = 5 /\ ~FracIsZero(f)) ELSE FracOverHalf(f)
        tie  == IF ten THEN r = 5 /\ FracIsZero(f) ELSE FracIsHalf(f)
    IN  Strip(IF over \/ (tie /\ k % 2 = 1) THEN k + 1 ELSE k, IF ten THEN 1 ELSE 0)

FmtMag(m) ==
    IF m[1] >= 100000000 THEN FmtWhole(m)
    ELSE IF m[1] = 0 THEN FmtSmall(<<m[2], m[3], m[4], m[5], m[6]>>, 0)
    ELSE FmtFrom(m[1], <<m[2], m[3], m[4], m[5], m[6]>>, 0)

Fmt9g(x) ==
    IF x[1] < 0 THEN LET p == FmtMag(FxNeg(x)) IN <<-p[1], p[2]>>
    ELSE FmtMag(x)

-----------------------------------------------------------------------------
(* Tables *)

\* the largest and the smallest member of a non-empty set of numbers
SetMax(S) == CHOOSE m \in S : \A x \in S : x <= m
SetMin(S) == CHOOSE m \in S : \A x \in S : m <= x

\* 25 candles <<time, open, close, high, low>>, period 60, times 0..1440;
\* the highest high (100) is at row 12 and the lowest low (10) at row 3
Candle25 ==
    [i \in 1..25 |->
        LET r == i - 1 IN
        <<60 * r,
          50 + 10 * (r % 2),
          55,
          IF r = 12 THEN 100 ELSE 70 + 5 * (r % 4),
          IF r = 3 THEN 10 ELSE 30 + 5 * (r % 3)>>]

\* 22 candles at epoch-second times, period 60; the highest high is at the
\* first row and the lowest low at the last one
Epoch22 ==
    [i \in 1..22 |->
        LET r == i - 1 IN
        <<1500000000 + 60 * r,
          50 + 10 * (r % 2),
          55,
          IF r = 0 THEN 100 ELSE 70 + 5 * (r % 4),
          IF r = 21 THEN 10 ELSE 30 + 5 * (r % 3)>>]

\* volume bars <<time, open, close, volume>> over the times of a table
VolumeOf(t) == [i \in 1..Len(t) |-> <<t[i][1], 50 + 10 * (i % 2), 55, 1000 + 10 * i>>]

\* a line series <<time, y>> over the times of a table
LineOf(t) == [i \in 1..Len(t) |-> <<t[i][1], 200 + i>>]

-----------------------------------------------------------------------------
(* PandasDataSource *)

\* period property: time[1] - time[0]
period(d) == d[2][1] - d[1][1]

\* what a call leaves behind when the period property finds no second row:
\* .iloc[1] raises IndexError
IndexError == <<"IndexError">>

\* get_time(offset_from_end, period): the multiplier is given in halves
\* (halves = -1 for period=-0.5, +1 for period=+0.5, 0 for none)
get_time(d, offset_from_end, halves) ==
    LET off == IF offset_from_end >= Len(d) THEN Len(d) - 1 ELSE offset_from_end
        t   == FxInt(d[Len(d) - off][1])
    IN  IF halves = 0 THEN t
        ELSE IF Len(d) < 2 THEN IndexError
        ELSE FxAddHalves(t, halves * period(d))

\* the least whole number at or above x; x[1] is the greatest at or below
FxCeil(x) == IF \A k \in 2..6 : x[k] = 0 THEN x[1] ELSE x[1] + 1

\* (mutant) the upper bound taken exclusive
RowsIn_open(d, x0, x1) ==
    LET lo == FxCeil(x0)
        hi == FxCeil(x1) - 1
    IN  SelectSeq(d, LAMBDA r : lo <= r[1] /\ r[1] <= hi)

\* the rows of d with x0 <= time <= x1; the times are whole numbers, so
\* x0 <= t is FxCeil(x0) <= t and t <= x1 is t <= x1[1]
RowsIn(d, x0, x1) ==
    LET lo == FxCeil(x0)
        hi == x1[1]
    IN  SelectSeq(d, LAMBDA r : lo <= r[1] /\ r[1] <= hi)

\* df[valcols].max().max() and .min().min() with valcols = columns[skip:]:
\* the extreme of each column, then the extreme of those
ColMax(rows, skip) ==
    SetMax({SetMax({rows[i][c] : i \in 1..Len(rows)}) : c \in (skip + 1)..Len(rows[1])})
ColMin(rows, skip) ==
    SetMin({SetMin({rows[i][c] : i \in 1..Len(rows)}) : c \in (skip + 1)..Len(rows[1])})

\* _hilo's result for the filtered rows
hilo_rows(rows, skip) ==
    IF Len(rows) = 0 THEN <<0, 0, 0, 0, 0>>
    ELSE <<rows[1][1], rows[Len(rows)][1], ColMax(rows, skip), ColMin(rows, skip), Len(rows)>>

\* (mutant) the window put in order before filtering
hilo_uncached_sorted(d, skip, x0, x1) ==
    IF FxLeq(x0, x1) THEN hilo_rows(RowsIn(d, x0, x1), skip)
    ELSE hilo_rows(RowsIn(d, x1, x0), skip)

\* _hilo(x0, x1): <<t0, t1, hi, lo, count>>
hilo_uncached(d, skip, x0, x1) == hilo_rows(RowsIn(d, x0, x1), skip)

\* query = '%.9g,%.9g' % (x0, x1)
HiloQuery(x0, x1) == <<Fmt9g(x0), Fmt9g(x1)>>

\* what hilo(x0, x1) returns on a store with table d, skip count skip and
\* cache entry (cq, ca)
hilo_keyed(d, skip, cq, ca, x0, x1, key) ==
    IF key # cq THEN hilo_uncached(d, skip, x0, x1) ELSE ca

\* hilo(x0, x1), the key formed from the arguments
hilo(d, skip, cq, ca, x0, x1) == hilo_keyed(d, skip, cq, ca, x0, x1, HiloQuery(x0, x1))

\* bear_rows(): rows with open > close, as tuples
bear_rows(d) == SelectSeq(d, LAMBDA r : r[2] > r[3])

\* (mutant) rows with open = close left out
bull_rows_strict(d) == SelectSeq(d, LAMBDA r : r[2] < r[3])

\* bull_rows(): rows with open <= close, as tuples
bull_rows(d) == SelectSeq(d, LAMBDA r : r[2] <= r[3])

\* addcols(other): the columns of other after the time column, appended row by row
addcols(d, other) == [i \in 1..Len(d) |-> d[i] \o SubSeq(other[i], 2, Len(other[i]))]

-----------------------------------------------------------------------------
(* Initial values of the view box and of the history variables *)

\* the least row count scaleRect and set_datasrc accept
MinRows == 20

\* heavies_blind_cnt after __init__ and add_heavy_item, and after _setRange
BlindInit  == 50
BlindTicks == 2

NoRect == [x0 |-> FxInt(0), y0 |-> 0, x1 |-> FxInt(1), y1 |-> 1]  \* toolkit default

NoLast == [op |-> "init", a |-> FxInt(0), b |-> FxInt(0), res |-> <<>>, done |-> FALSE,
           miss |-> FALSE, arg |-> <<>>]

ViewInit ==
    /\ datasrc = FALSE
    /\ rect = NoRect
    /\ auto_scale_y = TRUE
    /\ limits = [x |-> <<>>, y |-> <<>>]
    /\ heavies = <<>>
    /\ heavies_blind_cnt = BlindInit
    /\ gate = [ticks |-> 0, reveals |-> 0, armed |-> BlindInit, by |-> "init", cut |-> FALSE,
                shown |-> FALSE]

StoreInit(t, skip) ==
    /\ df = t
    /\ skip_scale_colcnt = skip
    /\ cache_hilo_query = <<>>
    /\ cache_hilo_answer = <<>>
    /\ last = NoLast
    /\ hist = <<>>

-----------------------------------------------------------------------------
(* The store's functions applied to small generated tables *)

\* strictly increasing time sequences of length n over 0..MaxTime
TimeSeqs(n) == {s \in [1..n -> 0..MaxTime] : \A i \in 1..(n - 1) : s[i] < s[i + 1]}

\* tables <<time, open, close>> of 1..MaxLen rows
SmallTables ==
    UNION {{[i \in 1..n |-> <<ts[i], oc[i][1], oc[i][2]>>] :
               ts \in TimeSeqs(n), oc \in [1..n -> (1..MaxVal) \X (1..MaxVal)]} :
           n \in 1..MaxLen}

\* window bounds around the small tables: the whole numbers and one half
SmallBounds == {FxInt(n) : n \in -1..(MaxTime + 1)} \cup {FxAddHalves(FxInt(0), 1)}

\* window bounds around the 25-row example
ExampleBounds == {FxAddHalves(FxInt(t), h) : t \in {0, 180, 720, 1440}, h \in -1..1}

PureBounds(d) == IF d = Candle25 THEN ExampleBounds ELSE SmallBounds

InitPure ==
    /\ ViewInit
    /\ init_steps = 300
    /\ pending = <<>>
    /\ \/ \E t \in SmallTables, skip \in 1..2 : StoreInit(t, skip)
       \/ \E skip \in {1, 3} : StoreInit(Candle25, skip)

\* a direct call of _hilo(x0, x1)
CallHiloUncached(x0, x1) ==
    /\ last' = [NoLast EXCEPT !.op = "_hilo", !.a = x0, !.b = x1, !.done = TRUE,
                              !.res = hilo_uncached(df, skip_scale_colcnt, x0, x1)]
    /\ UNCHANGED <<storeVars, viewVars, pending, hist, gate>>

\* a direct call of hilo(x0, x1)
CallHilo(x0, x1) ==
    \E key \in {HiloQuery(x0, x1)} :
    \E ans \in {hilo_keyed(df, skip_scale_colcnt, cache_hilo_query, cache_hilo_answer,
                            x0, x1, key)} :
    /\ cache_hilo_query' = key
    /\ cache_hilo_answer' = ans
    /\ last' = [NoLast EXCEPT !.op = "hilo", !.a = x0, !.b = x1, !.done = TRUE, !.res = ans,
                              !.miss = (key # cache_hilo_query)]
    /\ hist' = (IF Len(hist) < 3 THEN hist ELSE Tail(hist))
                   \o <<[a |-> x0, b |-> x1, res |-> ans]>>
    /\ UNCHANGED <<df, skip_scale_colcnt, viewVars, pending, gate>>

\* bear_rows() and bull_rows(), as the painters call them one after the other
CallRows ==
    /\ last' = [NoLast EXCEPT !.op = "rows", !.done = TRUE,
                              !.res = <<bear_rows(df), bull_rows(df)>>]
    /\ UNCHANGED <<storeVars, viewVars, pending, hist, gate>>

\* offsets from the end, up to past the first row, and multipliers in halves
Offsets(d) == 0..(Len(d) + 1)
Halves == {-1, 0, 1, 2}

\* a direct call of get_time(offset_from_end, period)
CallGetTime(k, h) ==
    /\ last' = [NoLast EXCEPT !.op = "get_time", !.arg = <<k, h>>, !.done = TRUE,
                              !.res = get_time(df, k, h)]
    /\ UNCHANGED <<storeVars, viewVars, pending, hist, gate>>

\* one function is applied once to each generated table
NextPure ==
    /\ ~last.done
    /\ \/ \E x0 \in PureBounds(df), x1 \in PureBounds(df) : CallHiloUncached(x0, x1)
       \/ \E x0 \in PureBounds(df), x1 \in PureBounds(df) : CallHilo(x0, x1)
       \/ CallRows
       \/ \E k \in Offsets(df), h \in Halves : CallGetTime(k, h)

SpecPure == InitPure /\ [][NextPure]_vars

\* the store queried directly, call after call
StoreTables == {Candle25, Epoch22}

\* window bounds around the first two rows of d
StoreBounds(d) == {FxInt(d[1][1] + k) : k \in {-4, 1, 4, period(d) + 4}}

InitStore ==
    /\ ViewInit
    /\ init_steps = 300
    /\ pending = <<>>
    /\ \E t \in StoreTables : StoreInit(t, 3)

NextStore ==
    \E x0 \in StoreBounds(df), x1 \in StoreBounds(df) : CallHilo(x0, x1)

SpecStore == InitStore /\ [][NextStore]_vars

-----------------------------------------------------------------------------
(* FinViewBox *)

\* vr.width() in halves of a time unit
Width(vr)  == FxDiff(vr.x1, vr.x0)

(* A scale factor is the double itself, the digits of its fraction in base   *)
(* 2^11 with the integer part on the first: <<a, b, c, d, e>> is             *)
(* a/2^11 + b/2^22 + c/2^33 + d/2^44 + e/2^55.                               *)
\* scale_fact = 1.02 ** (ev.delta() * wheelScaleFactor) with the toolkit's
\* wheelScaleFactor of -1/8:
\*   1.02 ** -15 = 0.7430147299885189     1.02 ** -5 = 0.9057308098299158
\*   1.02 ** 5   = 1.1040808032           1.02 ** 15 = 1.3458683383241299
ScaleFact(delta) ==
    IF delta = 120 THEN <<1521, 1421, 1339, 1011, 1116>>
    ELSE IF delta = 40 THEN <<1854, 1918, 734, 815, 916>>
    ELSE IF delta = -40 THEN <<2261, 322, 1083, 1578, 1328>>
    ELSE <<2756, 692, 1955, 1327, 224>>

\* the scale factor 1.0 of linkedViewChanged
ScaleOne == <<2048, 0, 0, 0, 0>>

WheelDeltas  == {-40, 40}

\* cursor positions of a wheel event, in tenths of the view width from its left edge
CursorTenths == {1, 5, 9}

\* the cursor position mapped into view coordinates
CursorAt(vr, f) == FxAddHalves(vr.x0, (f * Width(vr)) \div 10)

\* (mutant) the snap zones a tenth of the width wide
WheelCenter_narrow(vr, f) ==
    IF f * Width(vr) < Width(vr) THEN vr.x0
    ELSE IF f * Width(vr) > 9 * Width(vr) THEN vr.x1
    ELSE CursorAt(vr, f)

\* wheelEvent's zoom centre: far left and far right snap to the edges.  With
\* the cursor f tenths into the width, (center.x() - vr.left()) / vr.width()
\* is f/10, compared with 0.2 and 0.8
WheelCenter(vr, f) ==
    IF f * Width(vr) < 2 * Width(vr) THEN vr.x0
    ELSE IF f * Width(vr) > 8 * Width(vr) THEN vr.x1
    ELSE CursorAt(vr, f)

\* vr.center()
RectCenter(vr) == FxAddHalves(vr.x0, Width(vr) \div 2)

\* a * sf / 2 for a whole number a >= 0 of halves, exactly: the product is
\* formed digit by digit, the carries going upwards, and halved
FxScale(a, sf) ==
    LET t5 == a * sf[5]
        t4 == a * sf[4] + (t5 \div 2048)
        t3 == a * sf[3] + (t4 \div 2048)
        t2 == a * sf[2] + (t3 \div 2048)
        t1 == a * sf[1] + (t2 \div 2048)
    IN  FxHalve(<<t1 \div 2048, t1 % 2048, t2 % 2048, t3 % 2048, t4 % 2048, t5 % 2048>>)

\* center.x() + (x - center.x()) * scale_fact: the difference is exact, the
\* product is rounded to a double, and so is the sum
ScaleAround(c, x, sf) ==
    LET d == FxDiff(x, c)
        p == RN53(FxScale(IF d < 0 THEN -d ELSE d, sf))
    IN  RN53(FxSum(c, p, IF d < 0 THEN -1 ELSE 1))

\* (mutant) the found times handed on without the half period on each side
scaleRect_rect_raw(ans, halfperiod) ==
    [x0 |-> FxInt(ans[1]), y0 |-> ans[4], x1 |-> FxInt(ans[2]), y1 |-> ans[3]]

\* (mutant) a whole period put on each side
scaleRect_rect_wide(ans, halfperiod) ==
    [x0 |-> FxAddHalves(FxInt(ans[1]), -2 * halfperiod), y0 |-> ans[4],
     x1 |-> FxAddHalves(FxInt(ans[2]), 2 * halfperiod),  y1 |-> ans[3]]

\* the rectangle scaleRect hands to _setRange for hilo's answer ans
scaleRect_rect(ans, halfperiod) ==
    [x0 |-> FxAddHalves(FxInt(ans[1]), -halfperiod), y0 |-> ans[4],
     x1 |-> FxAddHalves(FxInt(ans[2]), halfperiod),  y1 |-> ans[3]]

\* scaleRect's result for the candidate window (x0, x1) and hilo's answer ans
scaleRect_ans(x0, x1, key, ans) ==
    [x0 |-> x0, x1 |-> x1, key |-> key, ans |-> ans,
     miss |-> (key # cache_hilo_query),
     commit |-> ~(ans[5] < MinRows),
     rect |-> scaleRect_rect(ans, period(df))]

\* hilo over the candidate window (x0, x1) in the current state
scaleRect_key(x0, x1, key) ==
    scaleRect_ans(x0, x1, key,
        hilo_keyed(df, skip_scale_colcnt, cache_hilo_query, cache_hilo_answer, x0, x1, key))

\* the candidate window (x0, x1) with its cache key
scaleRect_win(x0, x1) == scaleRect_key(x0, x1, HiloQuery(x0, x1))

\* what scaleRect(vr, scale_fact, center) computes in the current state: the
\* candidate window, hilo's answer, whether it commits and the rectangle it
\* hands to _setRange
scaleRect_out(vr, scale_fact, center) ==
    scaleRect_win(ScaleAround(center, vr.x0, scale_fact),
                  ScaleAround(center, vr.x1, scale_fact))

\* (mutant) the counter set one tick too high
setRange_late(r) ==
    /\ heavies' = [i \in 1..Len(heavies) |-> FALSE]
    /\ rect' = r
    /\ heavies_blind_cnt' = BlindTicks + 1
    /\ gate' = [ticks |-> 0, reveals |-> 0, armed |-> BlindTicks, by |-> "suppress",
                cut |-> (gate.by = "suppress" /\ gate.ticks = BlindTicks - 1),
                shown |-> (\E i \in 1..Len(heavies) : heavies[i])]

\* (mutant) the counter set and no item hidden
setRange_nohide(r) ==
    /\ heavies' = heavies
    /\ rect' = r
    /\ heavies_blind_cnt' = BlindTicks
    /\ gate' = [ticks |-> 0, reveals |-> 0, armed |-> BlindTicks, by |-> "suppress",
                cut |-> (gate.by = "suppress" /\ gate.ticks = BlindTicks - 1),
                shown |-> (\E i \in 1..Len(heavies) : heavies[i])]

\* (mutant) the counter left at zero, where no tick finds it
setRange_zero(r) ==
    /\ heavies' = [i \in 1..Len(heavies) |-> FALSE]
    /\ rect' = r
    /\ heavies_blind_cnt' = 0
    /\ gate' = [ticks |-> 0, reveals |-> 0, armed |-> BlindTicks, by |-> "suppress",
                cut |-> (gate.by = "suppress" /\ gate.ticks = BlindTicks - 1),
                shown |-> (\E i \in 1..Len(heavies) : heavies[i])]

\* _setRange(x0, y0, x1, y1)
setRange_(r) ==
    /\ heavies' = [i \in 1..Len(heavies) |-> FALSE]
    /\ rect' = r
    /\ heavies_blind_cnt' = BlindTicks
    /\ gate' = [ticks |-> 0, reveals |-> 0, armed |-> BlindTicks, by |-> "suppress",
                cut |-> (gate.by = "suppress" /\ gate.ticks = BlindTicks - 1),
                shown |-> (\E i \in 1..Len(heavies) : heavies[i])]

\* scaleRect(vr, scale_fact, center), called by the handler named op
scaleRect(vr, scale_fact, center, op, arg) ==
    IF ~datasrc
    THEN /\ last' = [NoLast EXCEPT !.op = op, !.arg = arg]
         /\ UNCHANGED <<storeVars, viewVars, pending, hist, gate>>
    ELSE \E out \in {scaleRect_out(vr, scale_fact, center)} :
         /\ cache_hilo_query' = out.key
         /\ cache_hilo_answer' = out.ans
         /\ last' = [NoLast EXCEPT !.op = op, !.arg = arg, !.a = out.x0, !.b = out.x1,
                                   !.res = out.ans, !.done = out.commit, !.miss = out.miss]
         /\ IF out.commit
            THEN setRange_(out.rect)
            ELSE UNCHANGED <<rect, heavies, heavies_blind_cnt, gate>>
         /\ UNCHANGED <<df, skip_scale_colcnt, datasrc, auto_scale_y, limits, init_steps,
                        pending, hist>>

\* wheelEvent(ev): wheel delta and cursor position
wheelEvent(delta, f) ==
    scaleRect(rect, ScaleFact(delta), WheelCenter(rect, f), "wheel", <<delta, f>>)

\* the rectangles a linked view reports, around the first MinRows rows of d
PeerRects(d) ==
    {[x0 |-> FxInt(d[1][1] + k), y0 |-> 0, x1 |-> FxInt(d[1][1] + 19 * period(d) + 4), y1 |-> 1] :
        k \in {-4, 4}}

\* linkedViewChanged(view, axis): vr is the peer's rectangle, or the own one
\* when there is no view
linkedViewChanged(vr) ==
    scaleRect(vr, ScaleOne, RectCenter(vr), "linked", <<vr.x0, vr.x1>>)

\* the rectangle set_datasrc sets from hilo's answer: no padding
set_datasrc_rect(ans) ==
    [x0 |-> FxInt(ans[1]), y0 |-> ans[4], x1 |-> FxInt(ans[2]), y1 |-> ans[3]]

\* (mutant) a count of exactly MinRows taken as too few
set_datasrc_strict(d, skip, op) ==
    \E x0 \in {get_time(d, init_steps, -1)}, x1 \in {get_time(d, 0, 1)} :
    \E key \in {HiloQuery(x0, x1)} :
    \E ans \in {hilo_keyed(d, skip, cache_hilo_query, cache_hilo_answer, x0, x1, key)} :
        /\ datasrc' = TRUE
        /\ cache_hilo_query' = key
        /\ cache_hilo_answer' = ans
        /\ rect' = IF ans[5] > MinRows THEN set_datasrc_rect(ans) ELSE rect
        /\ last' = [NoLast EXCEPT !.op = op, !.a = x0, !.b = x1, !.res = ans,
                                  !.done = (ans[5] > MinRows),
                                  !.miss = (key # cache_hilo_query),
                                  !.arg = <<rect.x0, rect.x1>>]

\* (mutant) the rectangle seeded only while none is set
set_datasrc_once(d, skip, op) ==
    \E x0 \in {get_time(d, init_steps, -1)}, x1 \in {get_time(d, 0, 1)} :
    \E key \in {HiloQuery(x0, x1)} :
    \E ans \in {hilo_keyed(d, skip, cache_hilo_query, cache_hilo_answer, x0, x1, key)} :
        /\ datasrc' = TRUE
        /\ cache_hilo_query' = key
        /\ cache_hilo_answer' = ans
        /\ rect' = IF ans[5] >= MinRows /\ rect = NoRect THEN set_datasrc_rect(ans) ELSE rect
        /\ last' = [NoLast EXCEPT !.op = op, !.a = x0, !.b = x1, !.res = ans,
                                  !.done = (ans[5] >= MinRows),
                                  !.miss = (key # cache_hilo_query),
                                  !.arg = <<rect.x0, rect.x1>>]

\* set_datasrc(datasrc) on a store whose table and skip count are d and skip;
\* the X bounds the rectangle had before the call are kept as an observation
set_datasrc(d, skip, op) ==
    \E x0 \in {get_time(d, init_steps, -1)}, x1 \in {get_time(d, 0, 1)} :
    \E key \in {HiloQuery(x0, x1)} :
    \E ans \in {hilo_keyed(d, skip, cache_hilo_query, cache_hilo_answer, x0, x1, key)} :
        /\ datasrc' = TRUE
        /\ cache_hilo_query' = key
        /\ cache_hilo_answer' = ans
        /\ rect' = IF ans[5] >= MinRows THEN set_datasrc_rect(ans) ELSE rect
        /\ last' = [NoLast EXCEPT !.op = op, !.a = x0, !.b = x1, !.res = ans,
                                  !.done = (ans[5] >= MinRows),
                                  !.miss = (key # cache_hilo_query),
                                  !.arg = <<rect.x0, rect.x1>>]

MaxOf(a, b) == IF a >= b THEN a ELSE b

\* update_datasrc(ax, datasrc): the first call binds the store, later calls
\* merge the next further series into it and bind it again
update_datasrc ==
    IF ~datasrc
    THEN /\ set_datasrc(df, skip_scale_colcnt, "bind")
         /\ limits' = [limits EXCEPT !.x = <<get_time(df, Len(df), -1), get_time(df, 0, 1)>>]
         /\ UNCHANGED <<df, skip_scale_colcnt, auto_scale_y, init_steps, heavies,
                        heavies_blind_cnt, pending, hist, gate>>
    ELSE /\ pending # <<>>
         /\ df' = addcols(df, Head(pending).df)
         /\ skip_scale_colcnt' = MaxOf(skip_scale_colcnt, Head(pending).skip)
         /\ set_datasrc(df', skip_scale_colcnt', "rebind")
         /\ pending' = Tail(pending)
         /\ UNCHANGED <<auto_scale_y, limits, init_steps, heavies, heavies_blind_cnt,
                        hist, gate>>

\* add_heavy_item(item)
add_heavy_item ==
    /\ Len(heavies) < MaxHeavies
    /\ heavies' = Append(heavies, FALSE)
    /\ heavies_blind_cnt' = BlindInit
    /\ gate' = [ticks |-> 0, reveals |-> 0, armed |-> BlindInit, by |-> "register", cut |-> FALSE,
                shown |-> FALSE]
    /\ last' = [NoLast EXCEPT !.op = "register"]
    /\ UNCHANGED <<storeVars, datasrc, rect, auto_scale_y, limits, init_steps, pending, hist>>

\* (mutant) the items shown at every tick that finds the counter at or below zero
show_heavies_nonpos ==
    /\ heavies_blind_cnt > -MaxBelow
    /\ heavies_blind_cnt' = heavies_blind_cnt - 1
    /\ heavies' = IF heavies_blind_cnt' > 0 THEN heavies
                  ELSE [i \in 1..Len(heavies) |-> TRUE]
    /\ gate' = [gate EXCEPT !.ticks = @ + 1,
                            !.reveals = IF heavies_blind_cnt' > 0 THEN @ ELSE @ + 1]
    /\ last' = [NoLast EXCEPT !.op = "tick", !.done = (heavies_blind_cnt' <= 0)]
    /\ UNCHANGED <<storeVars, datasrc, rect, auto_scale_y, limits, init_steps, pending, hist>>

\* show_heavies(): the timer's tick
show_heavies ==
    /\ heavies_blind_cnt > -MaxBelow
    /\ heavies_blind_cnt' = heavies_blind_cnt - 1
    /\ heavies' = IF heavies_blind_cnt' # 0 THEN heavies
                  ELSE [i \in 1..Len(heavies) |-> TRUE]
    /\ gate' = [gate EXCEPT !.ticks = @ + 1,
                            !.reveals = IF heavies_blind_cnt' # 0 THEN @ ELSE @ + 1]
    /\ last' = [NoLast EXCEPT !.op = "tick", !.done = (heavies_blind_cnt' = 0)]
    /\ UNCHANGED <<storeVars, datasrc, rect, auto_scale_y, limits, init_steps, pending, hist>>

\* the Y limits a caller fixes: they contain every cell of the tables, so the
\* toolkit's clamping of a rectangle to its limits changes no rectangle here
YRanges == {<<0, 2000>>}

\* set_y_range(ax, ymin, ymax)
set_y_range(ymin, ymax) ==
    /\ auto_scale_y' = FALSE
    /\ limits' = [limits EXCEPT !.y = <<ymin, ymax>>]
    /\ last' = [NoLast EXCEPT !.op = "set_y_range"]
    /\ UNCHANGED <<storeVars, datasrc, rect, init_steps, heavies, heavies_blind_cnt,
                   pending, hist, gate>>

-----------------------------------------------------------------------------
(* The view box over one store *)

ViewTables == {Epoch22}

Init ==
    /\ ViewInit
    /\ init_steps = 300
    /\ pending = <<>>
    /\ \E t \in ViewTables : StoreInit(t, 3)

Next ==
    \/ update_datasrc
    \/ add_heavy_item
    \/ \E delta \in WheelDeltas, f \in CursorTenths : wheelEvent(delta, f)
    \/ linkedViewChanged(rect)
    \/ \E vr \in PeerRects(df) : linkedViewChanged(vr)
    \/ show_heavies
    \/ \E yr \in YRanges : set_y_range(yr[1], yr[2])

Spec == Init /\ [][Next]_vars

\* the timer fires every 50 ms whatever else happens: its tick is not put off
\* for ever
SpecFair == Spec /\ WF_vars(show_heavies)

-----------------------------------------------------------------------------
(* Binding and re-binding: the script plots further series on the axis while *)
(* the view is zoomed, on a table at the MinRows threshold.                  *)

\* a table of exactly MinRows rows
Candle20 == SubSeq(Candle25, 1, MinRows)

BindTables == {Candle20}

\* what the script does on a table d: the view's init_steps (the default, which
\* get_time clamps to the first row, or a value that leaves one row out) and
\* the further series it plots on the axis (volume bars or a line)
BindPlans(d) ==
    {[init_steps |-> 300, series |-> [df |-> VolumeOf(d), skip |-> 3]],
     [init_steps |-> 18,  series |-> [df |-> LineOf(d), skip |-> 1]]}

InitBind ==
    /\ ViewInit
    /\ \E t \in BindTables :
          /\ StoreInit(t, 3)
          /\ \E plan \in BindPlans(t) :
                /\ init_steps = plan.init_steps
                /\ pending = <<plan.series>>

SpecBind == InitBind /\ [][Next]_vars

\* the arithmetic of the view is exact: the rectangle is on the grid of
\* halves, the centre of the view and any tenth of a seeded view's width too
TypeOK ==
    /\ Width(rect) > 0
    /\ OnHalves(rect.x0)
    /\ OnHalves(rect.x1)
    /\ Width(rect) % 2 = 0
    /\ rect # NoRect => Width(rect) % 10 = 0
    /\ heavies_blind_cnt \in (-MaxBelow)..BlindInit

-----------------------------------------------------------------------------
(* Claims *)

Zero5 == <<0, 0, 0, 0, 0>>

AllHidden  == \A i \in 1..Len(heavies) : ~heavies[i]
AllVisible == \A i \in 1..Len(heavies) : heavies[i]

IsRescale(l) == l.op \in {"wheel", "linked"}

\* the number of rows of the table inside the window of the last call
RowsInLast == Len(RowsIn(df, last.a, last.b))

\* C1: a rescale commits exactly when the range query over its candidate window
\* returns a count of at least 20; a window holding exactly 19 rows is rejected
\* and one holding exactly 20 rows is committed.
C1_RescaleThreshold ==
    (IsRescale(last) /\ datasrc) =>
        /\ last.done <=> last.res[5] >= MinRows
        /\ RowsInLast = MinRows - 1 => ~last.done
        /\ RowsInLast = MinRows => last.done

\* C2: after an accepted rescale the heavy items are hidden while fewer than
\* BlindTicks ticks have passed since it, and all visible once BlindTicks ticks
\* have passed with no further rescale; a rescale after BlindTicks - 1 ticks
\* starts the count again.
C2_Debounce ==
    gate.by = "suppress" =>
        /\ gate.ticks < BlindTicks => AllHidden /\ heavies_blind_cnt = BlindTicks - gate.ticks
        /\ gate.ticks >= BlindTicks => AllVisible

\* a countdown restarted after BlindTicks - 1 ticks has run out and shown the item
C2_Witness ==
    /\ gate.by = "suppress"
    /\ gate.cut
    /\ gate.ticks = BlindTicks
    /\ Len(heavies) > 0
    /\ AllVisible

\* C3: every setting of the counter (construction, register, accepted rescale)
\* is followed by exactly one reveal, at the tick that brings the counter to
\* zero, and by no further reveal however many more ticks fire.
C3_OneReveal ==
    /\ gate.armed = (IF gate.by = "suppress" THEN BlindTicks ELSE BlindInit)
    /\ gate.ticks < gate.armed => gate.reveals = 0
    /\ gate.ticks >= gate.armed => gate.reveals = 1 /\ AllVisible
    /\ heavies_blind_cnt = gate.armed - gate.ticks

\* the counter has gone below zero after a register, with one reveal
C3_Witness ==
    /\ gate.by = "register"
    /\ heavies_blind_cnt < 0
    /\ gate.reveals = 1
    /\ Len(heavies) > 0
    /\ AllVisible

\* C4: two hilo calls in a row with the same window return the same result,
\* and after hilo(A), hilo(B), hilo(A) with B different from A the last call
\* returns what _hilo returns for A.
C4_CacheNotStale ==
    /\ Len(hist) >= 2 =>
         LET p == hist[Len(hist) - 1]
             c == hist[Len(hist)]
         IN  (p.a = c.a /\ p.b = c.b) => c.res = p.res
    /\ Len(hist) = 3 =>
         ((hist[1].a = hist[3].a /\ hist[1].b = hist[3].b
              /\ ~(hist[2].a = hist[1].a /\ hist[2].b = hist[1].b))
            => hist[3].res = hilo_uncached(df, skip_scale_colcnt, hist[3].a, hist[3].b))

\* the indices of the rows of d with x0 <= time <= x1
IdxIn(d, x0, x1) ==
    {i \in 1..Len(d) : FxLeq(x0, FxInt(d[i][1])) /\ FxLeq(FxInt(d[i][1]), x1)}

\* the cells of the rows in I from column index skip (counted from 0) onward
CellsFrom(d, I, skip) == {d[i][c] : i \in I, c \in (skip + 1)..Len(d[1])}

\* C5: for a window x0 <= x1 holding at least one row, _hilo returns the first
\* and last time inside the window, the maximum and minimum over the columns
\* from index skip onward of the rows inside it, and their number; on the
\* 25-row example the window (0, 1440) gives (0, 1440, 100, 10, 25).
C5_HiloResult ==
    (last.op = "_hilo" /\ FxLeq(last.a, last.b) /\ IdxIn(df, last.a, last.b) # {}) =>
        LET I == IdxIn(df, last.a, last.b)
            cells == CellsFrom(df, I, skip_scale_colcnt) IN
        /\ last.res[1] = df[SetMin(I)][1]
        /\ last.res[2] = df[SetMax(I)][1]
        /\ last.res[3] \in cells /\ \A v \in cells : v <= last.res[3]
        /\ last.res[4] \in cells /\ \A v \in cells : last.res[4] <= v
        /\ last.res[5] = Cardinality(I)
        /\ Len(last.res) = 5
        /\ (df = Candle25 /\ last.a = FxInt(0) /\ last.b = FxInt(1440))
              => last.res = <<0, 1440, 100, 10, 25>>

\* the 25-row example has been queried
C5_Witness ==
    /\ last.op = "_hilo"
    /\ df = Candle25
    /\ last.res = <<0, 1440, 100, 10, 25>>

\* _hilo has answered for a window that holds some but not all rows, with a
\* column before the skip index holding a value above the answer's hi
C5_SkippedColumn ==
    /\ last.op = "_hilo"
    /\ last.res[5] >= 1
    /\ last.res[5] < Len(df)
    /\ skip_scale_colcnt = 2
    /\ \E i \in IdxIn(df, last.a, last.b) : df[i][2] > last.res[3]

\* C6 as stated: for a window with x0 > x1, hilo returns what it returns for
\* the window (min(x0, x1), max(x0, x1)).
C6_Original ==
    (last.op = "hilo" /\ FxLess(last.b, last.a)) =>
        last.res = hilo_uncached(df, skip_scale_colcnt, last.b, last.a)

\* C6 amended: for a window with x0 > x1 the range query computes the zero
\* sentinel, which is the answer for the normalized window only when that
\* window holds no row.
C6_ReversedIsEmpty ==
    (last.op \in {"hilo", "_hilo"} /\ (last.op = "hilo" => last.miss)
        /\ FxLess(last.b, last.a)) =>
        /\ last.res = Zero5
        /\ (last.res = hilo_uncached(df, skip_scale_colcnt, last.b, last.a))
              <=> (IdxIn(df, last.b, last.a) = {})

\* hilo has answered the zero sentinel for a reversed window whose normalized
\* form holds a row
C6_Witness ==
    /\ last.op = "hilo"
    /\ FxLess(last.b, last.a)
    /\ IdxIn(df, last.b, last.a) # {}
    /\ last.res = Zero5

\* C7: once set_y_range has switched auto-Y-scale off, an accepted rescale
\* leaves the rectangle's Y bounds as they were.
C7_FixedY ==
    [][(~auto_scale_y /\ IsRescale(last') /\ last'.done)
          => (rect'.y0 = rect.y0 /\ rect'.y1 = rect.y1)]_vars

\* what a wheel event with this delta and cursor position computes
WheelOut(delta, f) == scaleRect_out(rect, ScaleFact(delta), WheelCenter(rect, f))

SnapsLeft(near, edge)  == near = edge /\ near.x0 = rect.x0
SnapsRight(near, edge) == near = edge /\ near.x1 = rect.x1

\* C8: a wheel event with the cursor at one tenth of the view width does what
\* one at the left edge does, with the candidate's left bound on the view's
\* left edge; and one at nine tenths does what one at the right edge does,
\* with the candidate's right bound on the view's right edge.
C8_EdgeSnap ==
    datasrc =>
        \A delta \in WheelDeltas :
            /\ SnapsLeft(WheelOut(delta, 1), WheelOut(delta, 0))
            /\ SnapsRight(WheelOut(delta, 9), WheelOut(delta, 10))

\* a wheel event at one tenth of the view width has committed a rectangle
C8_Witness ==
    /\ last.op = "wheel"
    /\ last.arg[2] = 1
    /\ last.done
    /\ last.res[5] < Len(df)

\* the number of rows among the first i that satisfy open > close
BearUpTo(d, i) == Cardinality({j \in 1..i : d[j][2] > d[j][3]})

\* C9: every row is in exactly one of bear_rows (open > close) and bull_rows
\* (open <= close), at the place its order in the table gives it, and the two
\* lengths add up to the number of rows.
C9_Partition ==
    last.op = "rows" =>
        LET bear == last.res[1]
            bull == last.res[2]
        IN  /\ Len(bear) + Len(bull) = Len(df)
            /\ Len(bear) = BearUpTo(df, Len(df))
            /\ \A i \in 1..Len(df) :
                  IF df[i][2] > df[i][3]
                  THEN bear[BearUpTo(df, i)] = df[i]
                  ELSE bull[i - BearUpTo(df, i)] = df[i]

\* the rows of a table with a row of equal open and close have been split,
\* and all of them are bullish
C9_Witness ==
    /\ last.op = "rows"
    /\ Len(df) >= 2
    /\ \E i \in 1..Len(df) : df[i][2] = df[i][3]
    /\ last.res[1] = <<>>
    /\ Len(last.res[2]) = Len(df)

\* C10: hilo on a window that holds no row of the table returns the zero
\* sentinel.
C10_EmptyWindow ==
    (last.op = "hilo" /\ RowsInLast = 0) => last.res = Zero5

\* the row get_time is to read: offset_from_end rows back from the last, clamped
\* to the first (index counted from 1)
RowAt(n, k) == MaxOf(0, n - 1 - k) + 1

\* C11: for a table of n >= 1 rows, every offset k >= 0 and every multiplier m,
\* get_time(k, m) does not fail and returns time[max(0, n-1-k)] + m * period.
C11_GetTime ==
    last.op = "get_time" =>
        LET n == Len(df)
            k == last.arg[1]
            h == last.arg[2]
        IN  /\ last.res # IndexError
            /\ h = 0 => last.res = FxInt(df[RowAt(n, k)][1])
            /\ n >= 2 => last.res = FxAddHalves(FxInt(df[RowAt(n, k)][1]),
                                          h * (df[2][1] - df[1][1]))

\* on tables of two rows or more, and with no multiplier on any table, get_time
\* returns the clamped row's time shifted by the multiple of the period
C11_WithSecondRow ==
    (last.op = "get_time" /\ (Len(df) >= 2 \/ last.arg[2] = 0)) =>
        /\ last.res # IndexError
        /\ last.res = FxAddHalves(FxInt(df[RowAt(Len(df), last.arg[1])][1]),
                            IF last.arg[2] = 0 THEN 0
                            ELSE last.arg[2] * (df[2][1] - df[1][1]))

\* an offset past the first row has been clamped to it
C11_Clamped ==
    /\ last.op = "get_time"
    /\ Len(df) >= 2
    /\ last.arg[1] > Len(df)
    /\ last.arg[2] = -1
    /\ last.res = FxAddHalves(FxInt(df[1][1]), -(df[2][1] - df[1][1]))

\* half the period of the bound table, counted in halves of a time unit
HalfPeriod == df[2][1] - df[1][1]

\* C12: an accepted rescale, whose range query returned (t0, t1, hi, lo, count)
\* with count >= 20, leaves the rectangle (t0 - period/2, lo, t1 + period/2, hi)
\* and the counter at 2.
C12_AcceptedRect ==
    (IsRescale(last) /\ last.done) =>
        /\ last.res[5] >= MinRows
        /\ rect.x0 = FxAddHalves(FxInt(last.res[1]), -HalfPeriod)
        /\ rect.x1 = FxAddHalves(FxInt(last.res[2]), HalfPeriod)
        /\ rect.y0 = last.res[4]
        /\ rect.y1 = last.res[3]
        /\ heavies_blind_cnt = BlindTicks

\* a wheel zoom has committed a rectangle whose X bounds are not the candidate
\* window's
C12_Witness ==
    /\ last.op = "wheel"
    /\ last.done
    /\ last.res[5] < Len(df)
    /\ rect.x0 # last.a
    /\ rect.x1 # last.b
    /\ heavies_blind_cnt = BlindTicks

\* C13: the first bind queries the window from half a period before the row
\* init_steps rows from the end to half a period after the last row; with a
\* count of at least 20 the rectangle is seeded from the answer, and with less
\* it is left unset.
C13_BindThreshold ==
    last.op = "bind" =>
        /\ last.arg = <<NoRect.x0, NoRect.x1>>
        /\ last.a = FxAddHalves(FxInt(df[RowAt(Len(df), init_steps)][1]), -HalfPeriod)
        /\ last.b = FxAddHalves(FxInt(df[Len(df)][1]), HalfPeriod)
        /\ last.res = hilo_uncached(df, skip_scale_colcnt, last.a, last.b)
        /\ last.res[5] >= MinRows =>
              rect = [x0 |-> FxInt(last.res[1]), y0 |-> last.res[4],
                      x1 |-> FxInt(last.res[2]), y1 |-> last.res[3]]
        /\ last.res[5] < MinRows => rect = NoRect

\* a bind whose window holds one row too few has left the rectangle unset
C13_Witness ==
    /\ last.op = "bind"
    /\ last.res[5] = MinRows - 1
    /\ rect = NoRect

\* a bind whose offset get_time clamped to the first row and whose window
\* holds exactly MinRows rows has seeded the rectangle
C13_Seeded ==
    /\ last.op = "bind"
    /\ init_steps > Len(df)
    /\ last.res[5] = MinRows
    /\ rect.x0 = FxInt(last.res[1])
    /\ rect.y1 = last.res[3]

\* C14 as stated: once a rectangle has been committed, a later bind, the
\* re-bind of update_datasrc included, leaves it unchanged.
C14_Original ==
    [][(rect # NoRect /\ last'.op \in {"bind", "rebind"}) => rect' = rect]_vars

\* C14 amended: every re-bind queries the initial window again and, when the
\* answer's count is at least 20, sets the rectangle to (t0, lo, t1, hi) of the
\* answer, whatever rectangle was committed before; with a smaller count it
\* leaves the rectangle as it was.
C14_RebindSeeds ==
    [][last'.op = "rebind" =>
          /\ last'.a = FxAddHalves(FxInt(df'[RowAt(Len(df'), init_steps)][1]), -HalfPeriod')
          /\ last'.b = FxAddHalves(FxInt(df'[Len(df')][1]), HalfPeriod')
          /\ rect' = IF last'.res[5] >= MinRows
                     THEN [x0 |-> FxInt(last'.res[1]), y0 |-> last'.res[4],
                           x1 |-> FxInt(last'.res[2]), y1 |-> last'.res[3]]
                     ELSE rect]_vars

\* a re-bind has replaced a rectangle that a rescale had committed
C14_Witness ==
    /\ last.op = "rebind"
    /\ last.done
    /\ last.arg # <<NoRect.x0, NoRect.x1>>
    /\ last.arg # <<rect.x0, rect.x1>>

\* a re-bind whose window holds too few rows has left a committed rectangle
\* as it was
C14_Kept ==
    /\ last.op = "rebind"
    /\ ~last.done
    /\ rect # NoRect
    /\ last.arg = <<rect.x0, rect.x1>>

\* C15 as stated: the step of an accepted rescale changes the visibility of no
\* heavy item.
C15_Original ==
    [][(IsRescale(last') /\ last'.done) => heavies' = heavies]_vars

\* C15 amended: the step of an accepted rescale hides every registered heavy
\* item, visible or not before it, registers or drops none, and sets the
\* counter to 2.
C15_SuppressHides ==
    [][(IsRescale(last') /\ last'.done) =>
          /\ Len(heavies') = Len(heavies)
          /\ \A i \in 1..Len(heavies') : ~heavies'[i]
          /\ heavies_blind_cnt' = BlindTicks]_vars

\* an accepted rescale has hidden an item that was visible just before it
C15_Witness ==
    /\ IsRescale(last)
    /\ last.done
    /\ gate.shown
    /\ gate.ticks = 0
    /\ Len(heavies) > 0
    /\ AllHidden

\* C16: whatever range queries, merges and skip updates came before, hilo
\* returns what _hilo computes over the store's current columns and skip count;
\* the re-bind after a merge, which queries the window of the bind again,
\* returns hi/lo that take the merged columns in.
C16_CacheCoherent ==
    (datasrc /\ last.op \in {"bind", "rebind", "wheel", "linked"}) =>
        last.res = hilo_uncached(df, skip_scale_colcnt, last.a, last.b)

\* C17: of two consecutive hilo calls with different windows, the second
\* returns what _hilo computes for its own window, also when the two windows'
\* bounds agree in their first nine significant digits.
C17_NoConflation ==
    Len(hist) >= 2 =>
        LET p == hist[Len(hist) - 1]
            c == hist[Len(hist)]
        IN  (p.a # c.a \/ p.b # c.b) =>
                c.res = hilo_uncached(df, skip_scale_colcnt, c.a, c.b)

\* a step that hides items: a register or an accepted rescale
HideStep == last'.op = "register" \/ (IsRescale(last') /\ last'.done)

\* C18: in every reachable state a hidden item comes with a strictly positive
\* counter, and under fair ticks, once registers and accepted rescales stop,
\* every registered item is eventually visible and stays so.
C18_NoneStranded ==
    /\ []((\E i \in 1..Len(heavies) : ~heavies[i]) => heavies_blind_cnt > 0)
    /\ (<>[][~HideStep]_vars) => <>[]AllVisible

\* an item hidden by an accepted rescale has been shown again and the counter
\* has gone on below zero
C18_Witness ==
    /\ gate.by = "suppress"
    /\ Len(heavies) > 0
    /\ AllVisible
    /\ heavies_blind_cnt < 0

\* what _hilo computes over the rectangle's X range
InView == hilo_uncached(df, skip_scale_colcnt, rect.x0, rect.x1)

\* C19: whenever the rectangle is set, x0 < x1, at least 20 rows of the bound
\* store lie in its X range, and y0 <= y1 are the lo and hi of those rows.
C19_NeverDegenerate ==
    rect # NoRect =>
        /\ datasrc
        /\ FxLess(rect.x0, rect.x1)
        /\ rect.y0 <= rect.y1
        /\ \E v \in {InView} :
              /\ v[5] >= MinRows
              /\ rect.y1 = v[3]
              /\ rect.y0 = v[4]

\* C19 while the store's columns are the ones first bound: the further series
\* is still to be merged
C19_BeforeMerge == pending # <<>> => C19_NeverDegenerate

\* C20: a rescale with scale factor 1.0 of the rectangle an accepted rescale
\* has just committed commits that same rectangle.
C20_Fixpoint ==
    (IsRescale(last) /\ last.done) =>
        \E out \in {scaleRect_out(rect, ScaleOne, RectCenter(rect))} :
            /\ out.commit
            /\ out.rect = rect

\* the view has been told of its own rectangle, committed by a rescale over
\* part of the table, and has committed it again
C20_Witness ==
    /\ last.op = "linked"
    /\ last.done
    /\ last.arg = <<rect.x0, rect.x1>>
    /\ last.res[5] < Len(df)

====
